---- MODULE Spec2Model ----
(***************************************************************************)
(* Model of src/model/Saver.py: Saver.save_map writes a Map to the file    *)
(* map.exd, Saver.load_map reads it back.  The file is a sequence of       *)
(* bytes; every struct.pack / struct.unpack of the source is modelled at   *)
(* byte level (native little-endian, two's complement).                    *)
(* Model of src/vue/SettingScene.py: the event handler and the per-frame   *)
(* update of the settings screen.                                          *)
(***************************************************************************)
EXTENDS Integers, Sequences, FiniteSets, TLC

VARIABLES
    world,    \* the Map the caller passes to save_map
    file,     \* content of map.exd, a sequence of bytes
    pc,       \* position of the running call ("idle" between calls)
    handle,   \* "open" / "closed": the file object f of the running call
    opens,    \* number of open() calls made by the running call
    pos,      \* read offset of load_map's file object
    map,      \* load_map's local variable map (NoMap until Map(seed) is built)
    ret,      \* what the last call handed to its caller
    wlog,     \* the f.write calls of the last save_map: section, kind, offset, width
    rlog,     \* the f.read calls of the last load_map: section, kind, offset, width
    done,     \* sections load_map has completed, in completion order
    prov,     \* provenance of the file content (which save outcome, which edit)
    scene     \* the SettingsScene object and what its calls act on

vars == <<world, file, pc, handle, opens, pos, map, ret, wlog, rlog, done, prov, scene>>

----------------------------------------------------------------------------
(* Bounds of the model *)

\* longest ore point list / footprint of an input world
MaxPts == 2
\* largest number of elements (chunk entries, kinds, points, structures,
\* buildings, noise chunks) of an input world
MaxItems == 4

----------------------------------------------------------------------------
(* Values *)

Point(x, y) == [t |-> "Point", x |-> x, y |-> y]
Pair(x, y) == [t |-> "tuple", x |-> x, y |-> y]

\* Perlin.CHUNK_SIZE, the side length of a noise chunk
CHUNK_SIZE == 2

\* the values of the members of the enumeration OreType
OreTypeValues == {1, 2}

\* A Python float is modelled by the bit pattern of its float32 rounding (as
\* a signed 32-bit integer) and by lo, 1 when the double carries mantissa
\* bits a float32 cannot hold.
Float(bits, lo) == [hi |-> bits, lo |-> lo]

Min(a, b) == IF a < b THEN a ELSE b

Take(s, n) == SubSeq(s, 1, Min(n, Len(s)))

----------------------------------------------------------------------------
(* struct.pack / struct.unpack *)

\* the four little-endian bytes of a 32-bit two's complement integer
PackI(v) ==
    LET u == IF v >= 0 THEN v ELSE (v + 2147483647) + 1
        top == u \div 16777216
    IN <<u % 256, (u \div 256) % 256, (u \div 65536) % 256,
         IF v >= 0 THEN top ELSE top + 128>>

\* struct.pack('ii', x, y)
PackII(x, y) == PackI(x) \o PackI(y)

\* struct.pack('B', v): one unsigned byte
PackB(v) == <<v>>

\* struct.pack('B', v) raises struct.error unless 0 <= v <= 255
PackBOk(v) == v >= 0 /\ v <= 255

\* struct.pack('f', value): the float32 rounding of the double
PackF(value) == PackI(value.hi)

\* struct.unpack('i', b)[0] of four bytes
UnpackI(b) ==
    LET low == b[1] + 256 * b[2] + 65536 * b[3]
    IN IF b[4] < 128 THEN b[4] * 16777216 + low
       ELSE (b[4] - 256) * 16777216 + low

\* struct.unpack('f', b)[0]: a double that holds a float32 exactly
UnpackF(b) == Float(UnpackI(b), 0)

----------------------------------------------------------------------------
(* Python containers: a dict is the sequence of its items in insertion     *)
(* order, each item a record [k, v] with a key no other item has.          *)

RECURSIVE DictHas(_, _)
DictHas(d, key) ==
    IF d = <<>> THEN FALSE
    ELSE IF d[1].k = key THEN TRUE ELSE DictHas(Tail(d), key)

\* DictSet leaving the item of an existing key as it is
DictSetFirst(d, key, value) ==
    IF DictHas(d, key) THEN d ELSE Append(d, [k |-> key, v |-> value])

\* d[key] = value: an existing key keeps its place and takes the new value,
\* a new key is appended
DictSet(d, key, value) ==
    IF DictHas(d, key)
    THEN [i \in 1..Len(d) |-> IF d[i].k = key THEN [k |-> key, v |-> value] ELSE d[i]]
    ELSE Append(d, [k |-> key, v |-> value])

RECURSIVE DictGet(_, _)
\* d[key] for a key of d
DictGet(d, key) == IF d[1].k = key THEN d[1].v ELSE DictGet(Tail(d), key)

DictKeys(d) == {d[i].k : i \in 1..Len(d)}

UniqueKeys(d) == \A i, j \in 1..Len(d) : d[i].k = d[j].k => i = j

----------------------------------------------------------------------------
(* The Map objects save_map is given                                       *)

NoMap == [t |-> "none"]

\* no SettingsScene has been constructed
NoScene == [t |-> "none"]

\* Map(seed): a Map with the given seed and nothing in it
MapNew(seed) ==
    [t |-> "Map", seed |-> seed, ores |-> <<>>, structures |-> <<>>,
     buildings |-> <<>>, chunks |-> <<>>]

Structure(ty, position, points) == [ty |-> ty, position |-> position, points |-> points]
Building(position, points) == [position |-> position, points |-> points]

SeqsUpTo(S, n) == UNION {[1..k -> S] : k \in 0..n}

(* The input worlds.  To keep their number small the i-th item of an input *)
(* dict has the i-th key of a fixed key list and a point list of length n  *)
(* is the first n points of a fixed list of distinct points.               *)

Seeds == {-1, 5}
ChunkKeys == <<Point(0, 0), Point(1, 0)>>
OreKeys == <<1, 2>>
NoiseKeys == <<Pair(0, 0), Pair(1, 0)>>

PointAt(i) == Point(i, 1 - i)
PtLists == {[i \in 1..n |-> PointAt(i)] : n \in 0..MaxPts}

\* the grid whose sample in row i, column j is 2^((i-1)*CHUNK_SIZE + j - 1):
\* every sample differs from every other
RampGrid ==
    [i \in 1..CHUNK_SIZE |->
        [j \in 1..CHUNK_SIZE |->
            Float(1065353216 + ((i - 1) * CHUNK_SIZE + j - 1) * 8388608, 0)]]

\* the grid whose samples are all 0.1, a double no float32 holds exactly
TenthGrid == [i \in 1..CHUNK_SIZE |-> [j \in 1..CHUNK_SIZE |-> Float(1036831949, 1)]]

GridAt(i) == IF i = 1 THEN RampGrid ELSE TenthGrid

RECURSIVE SumLen(_)
SumLen(s) == IF s = <<>> THEN 0 ELSE 1 + Len(s[1].points) + SumLen(Tail(s))

RECURSIVE KindsWeight(_)
KindsWeight(d) == IF d = <<>> THEN 0 ELSE 1 + Len(d[1].v) + KindsWeight(Tail(d))

RECURSIVE OresWeight(_)
OresWeight(d) == IF d = <<>> THEN 0 ELSE 1 + KindsWeight(d[1].v) + OresWeight(Tail(d))

RECURSIVE StructuresWeight(_)
StructuresWeight(d) ==
    IF d = <<>> THEN 0 ELSE 1 + SumLen(d[1].v) + StructuresWeight(Tail(d))

\* the dicts whose i-th key is keys[i] and whose values are in V
DictsOver(keys, V) ==
    {d \in SeqsUpTo([k : {keys[i] : i \in 1..Len(keys)}, v : V], Len(keys)) :
        \A i \in 1..Len(d) : d[i].k = keys[i]}

KindDicts == {d \in DictsOver(OreKeys, PtLists) : KindsWeight(d) < MaxItems}

OreDicts == {d \in DictsOver(ChunkKeys, KindDicts) : OresWeight(d) <= MaxItems}

StructureSet == {Structure(-2, Point(0, 1), pts) : pts \in PtLists}

StructureLists == {s \in SeqsUpTo(StructureSet, 2) : SumLen(s) < MaxItems}

StructureDicts ==
    {d \in DictsOver(ChunkKeys, StructureLists) : StructuresWeight(d) <= MaxItems}

BuildingSet == {Building(Point(1, 1), pts) : pts \in PtLists}

BuildingLists == {s \in SeqsUpTo(BuildingSet, 2) : SumLen(s) <= MaxItems}

NoiseDicts ==
    {[i \in 1..n |-> [k |-> NoiseKeys[i], v |-> GridAt(i)]] : n \in 0..Len(NoiseKeys)}

Weight(w) ==
    OresWeight(w.ores) + StructuresWeight(w.structures) + SumLen(w.buildings)
        + Len(w.chunks)

\* the input worlds: the Maps of at most MaxItems elements
Worlds ==
    {w \in [t : {"Map"}, seed : Seeds, ores : OreDicts, structures : StructureDicts,
            buildings : BuildingLists, chunks : NoiseDicts] : Weight(w) <= MaxItems}

----------------------------------------------------------------------------
(* save_map.  A writer state is [err, out, log]: the exception raised so   *)
(* far ("none" when none), the bytes of the file, and the f.write calls    *)
(* made.  Nothing is written once an exception is raised.                  *)

SaveSignature == <<77, 65, 80, 0>>

\* f.write(b)
Wr(w, b, sec, kind) ==
    IF w.err # "none" THEN w
    ELSE [err |-> "none", out |-> w.out \o b,
          log |-> Append(w.log, [sec |-> sec, kind |-> kind, off |-> Len(w.out), w |-> Len(b)])]

Raise(w, e) == IF w.err # "none" THEN w ELSE [w EXCEPT !.err = e]

RECURSIVE WriteSignature(_, _)
\* for b in signature: f.write(struct.pack('B', b))
WriteSignature(w, sig) ==
    IF sig = <<>> THEN w
    ELSE WriteSignature(Wr(w, PackB(sig[1]), "signature", "byte"), Tail(sig))

\* f.write(struct.pack('i', map.perlin.seed))
WriteSeed(w, m) == Wr(w, PackI(m.seed), "seed", "seed")

RECURSIVE WritePoints(_, _, _)
\* for point in points: f.write(struct.pack('ii', point.x, point.y))
WritePoints(w, pts, sec) ==
    IF pts = <<>> THEN w
    ELSE WritePoints(Wr(w, PackII(pts[1].x, pts[1].y), sec, "point"), Tail(pts), sec)

RECURSIVE WriteKinds(_, _)
\* for ore_type, ore in ores.items(): tag byte, point count, points
WriteKinds(w, kinds) ==
    IF kinds = <<>> THEN w
    ELSE LET tag == IF PackBOk(kinds[1].k)
                    THEN Wr(w, PackB(kinds[1].k), "ores", "tag")
                    ELSE Raise(w, "struct.error")
             cnt == Wr(tag, PackI(Len(kinds[1].v)), "ores", "npoints")
         IN WriteKinds(WritePoints(cnt, kinds[1].v, "ores"), Tail(kinds))

RECURSIVE WriteOreChunks(_, _)
\* for chunk_coords, ores in map.ores.items(): coordinates, kind count, kinds
WriteOreChunks(w, d) ==
    IF d = <<>> THEN w
    ELSE LET cc == Wr(w, PackII(d[1].k.x, d[1].k.y), "ores", "chunk")
             cnt == Wr(cc, PackI(Len(d[1].v)), "ores", "nkinds")
         IN WriteOreChunks(WriteKinds(cnt, d[1].v), Tail(d))

WriteOres(w, m) == WriteOreChunks(Wr(w, PackI(Len(m.ores)), "ores", "count"), m.ores)

RECURSIVE WriteStructureList(_, _)
\* for structure in structures: type, position, footprint length, footprint
WriteStructureList(w, l) ==
    IF l = <<>> THEN w
    ELSE LET ty == Wr(w, PackI(l[1].ty), "structures", "type")
             ps == Wr(ty, PackII(l[1].position.x, l[1].position.y), "structures", "position")
             cnt == Wr(ps, PackI(Len(l[1].points)), "structures", "npoints")
         IN WriteStructureList(WritePoints(cnt, l[1].points, "structures"), Tail(l))

RECURSIVE WriteStructureChunks(_, _)
WriteStructureChunks(w, d) ==
    IF d = <<>> THEN w
    ELSE LET cc == Wr(w, PackII(d[1].k.x, d[1].k.y), "structures", "chunk")
             cnt == Wr(cc, PackI(Len(d[1].v)), "structures", "nstructures")
         IN WriteStructureChunks(WriteStructureList(cnt, d[1].v), Tail(d))

WriteStructures(w, m) ==
    WriteStructureChunks(Wr(w, PackI(Len(m.structures)), "structures", "count"), m.structures)

RECURSIVE WriteBuildingList(_, _)
\* for building in map.buildings: position, footprint length, footprint
WriteBuildingList(w, l) ==
    IF l = <<>> THEN w
    ELSE LET ps == Wr(w, PackII(l[1].position.x, l[1].position.y), "buildings", "position")
             cnt == Wr(ps, PackI(Len(l[1].points)), "buildings", "npoints")
         IN WriteBuildingList(WritePoints(cnt, l[1].points, "buildings"), Tail(l))

WriteBuildings(w, m) ==
    WriteBuildingList(Wr(w, PackI(Len(m.buildings)), "buildings", "count"), m.buildings)

\* for row in chunk[0]: for value in row: f.write(struct.pack('f', value))
\* chunk[0] is the first row of the grid, so "row" is bound to each of its
\* samples in turn, and iterating over a float raises TypeError before
\* anything is written.  chunk[0] of a grid without rows raises IndexError;
\* a first row without samples makes the outer loop run zero times.
WriteSamples(w, chunk) ==
    IF chunk = <<>> THEN Raise(w, "IndexError")
    ELSE IF chunk[1] = <<>> THEN w
    ELSE Raise(w, "TypeError")

RECURSIVE WriteNoiseChunks(_, _)
\* for chunk_coords, chunk in map.perlin.chunks.items(): chunk_coords[0],
\* chunk_coords[1], then len(chunk), then the samples
WriteNoiseChunks(w, d) ==
    IF d = <<>> THEN w
    ELSE LET cc == Wr(w, PackII(d[1].k.x, d[1].k.y), "noise", "chunk")
             rows == Wr(cc, PackI(Len(d[1].v)), "noise", "rows")
         IN WriteNoiseChunks(WriteSamples(rows, d[1].v), Tail(d))
\* WriteNoise without the CHUNK_SIZE integer
WriteNoiseNoSize(w, m) == WriteNoiseChunks(Wr(w, PackI(Len(m.chunks)), "noise", "count"), m.chunks)


WriteNoise(w, m) ==
    LET size == Wr(w, PackI(CHUNK_SIZE), "noise", "size")
        cnt == Wr(size, PackI(Len(m.chunks)), "noise", "count")
    IN WriteNoiseChunks(cnt, m.chunks)

----------------------------------------------------------------------------------------------------------------------------------------------
(* load_map.  A reader state is [err, pos, log, val]: the exception raised *)
(* ("none" when none), the read offset, the f.read calls made and the      *)
(* value the last step produced.  Nothing is read once an exception is     *)
(* raised: every step hands an erroneous state on unchanged.               *)

LoadSignature == <<77, 65, 80, 0>>

\* f.read(n): the next n bytes, fewer at the end of the file
FRead(f, r, n) == SubSeq(f, r.pos + 1, Min(r.pos + n, Len(f)))

\* struct.unpack of a buffer b that must hold n bytes: struct.error otherwise
UnpackErr(b, n) == IF Len(b) = n THEN "none" ELSE "struct.error"

Val(r, v) == [err |-> r.err, pos |-> r.pos, log |-> r.log, val |-> v]

Err(r, e) == [err |-> e, pos |-> r.pos, log |-> r.log, val |-> r.val]

\* the reader state after f.read(n) returned the buffer b
RdBuf(r, b, n, sec, kind) ==
    [err |-> UnpackErr(b, n), pos |-> r.pos + Len(b),
     log |-> Append(r.log, [sec |-> sec, kind |-> kind, off |-> r.pos, w |-> n]),
     val |-> b]

\* struct.unpack(fmt, f.read(n)) for a format of n bytes; val is the buffer
Rd(f, r, n, sec, kind) ==
    IF r.err # "none" THEN r ELSE RdBuf(r, FRead(f, r, n), n, sec, kind)

ConvI(a) == IF a.err = "none" THEN Val(a, UnpackI(a.val)) ELSE a

ConvII(a) ==
    IF a.err = "none"
    THEN Val(a, <<UnpackI(SubSeq(a.val, 1, 4)), UnpackI(SubSeq(a.val, 5, 8))>>)
    ELSE a

ConvB(a) == IF a.err = "none" THEN Val(a, a.val[1]) ELSE a

ConvF(a) == IF a.err = "none" THEN Val(a, UnpackF(a.val)) ELSE a

ZeroIfShort(a) == IF a.err = "none" THEN Val(a, UnpackI(a.val)) ELSE Val(Err(a, "none"), 0)

\* RdI with a short read taken for the integer 0
RdIZero(f, r, sec, kind) ==
    IF r.err # "none" THEN r ELSE ZeroIfShort(RdBuf(r, FRead(f, r, 4), 4, sec, kind))

\* struct.unpack('i', f.read(4))[0]
RdI(f, r, sec, kind) == ConvI(Rd(f, r, 4, sec, kind))

\* struct.unpack('ii', f.read(8))
RdII(f, r, sec, kind) == ConvII(Rd(f, r, 8, sec, kind))

\* struct.unpack('B', f.read(1))[0]
RdB(f, r, sec, kind) == ConvB(Rd(f, r, 1, sec, kind))

\* struct.unpack('f', f.read(4))[0]
RdF(f, r, sec, kind) == ConvF(Rd(f, r, 4, sec, kind))
\* OreType falling back to the first member for an unknown value
OreTypeDefault(r) ==
    IF r.err # "none" THEN r
    ELSE IF r.val \in OreTypeValues THEN r ELSE Val(r, 1)

\* OreType(value): the member with that value, ValueError when there is none
OreType(r) ==
    IF r.err # "none" THEN r
    ELSE IF r.val \in OreTypeValues THEN r ELSE Err(r, "ValueError")
\* CheckSignature comparing the three letters only
CheckSignatureLetters(r) ==
    IF r.err # "none" THEN r
    ELSE IF Take(r.val, 3) # Take(LoadSignature, 3) THEN Err(r, "Invalid file format") ELSE r

\* file_signature != signature raises ValueError("Invalid file format")
CheckSignature(r) ==
    IF r.err # "none" THEN r
    ELSE IF r.val # LoadSignature THEN Err(r, "Invalid file format") ELSE r

\* lines 60-62
ReadSignature(f, r) == CheckSignature(Rd(f, r, 4, "signature", "signature"))

\* line 64
ReadSeed(f, r) == RdI(f, r, "seed", "seed")
\* AddPoint inserting at the front
AddPointFront(points, p) == <<p>> \o points

\* points.append(...)
AddPoint(points, p) == Append(points, p)

RECURSIVE ReadPoints(_, _, _, _, _)
RECURSIVE StorePoint(_, _, _, _, _)

\* for _ in range(n): read a point and append it
ReadPoints(f, r, n, sec, points) ==
    IF r.err # "none" THEN r
    ELSE IF n <= 0 THEN Val(r, points)
    ELSE StorePoint(f, RdII(f, r, sec, "point"), n, sec, points)

StorePoint(f, a, n, sec, points) ==
    IF a.err # "none" THEN a
    ELSE ReadPoints(f, a, n - 1, sec, AddPoint(points, Point(a.val[1], a.val[2])))

\* ReadPointList rejecting a negative point count
ReadPointListStrict(f, cnt, sec) ==
    IF cnt.err # "none" THEN cnt
    ELSE IF cnt.val < 0 THEN Err(cnt, "ValueError")
    ELSE ReadPoints(f, cnt, cnt.val, sec, <<>>)

\* num_points = ...; points = []; the loop
ReadPointList(f, cnt, sec) ==
    IF cnt.err # "none" THEN cnt ELSE ReadPoints(f, cnt, cnt.val, sec, <<>>)

RECURSIVE ReadKinds(_, _, _, _)
RECURSIVE StoreKind(_, _, _, _, _)

ReadKind(f, tag, n, ores) ==
    StoreKind(f, tag, ReadPointList(f, RdI(f, tag, "ores", "npoints"), "ores"), n, ores)

\* for _ in range(num_ores_in_chunk): tag, point count, points
ReadKinds(f, r, n, ores) ==
    IF r.err # "none" THEN r
    ELSE IF n <= 0 THEN Val(r, ores)
    ELSE ReadKind(f, OreType(RdB(f, r, "ores", "tag")), n, ores)

\* ores[ore_type] = points
StoreKind(f, tag, pts, n, ores) ==
    IF pts.err # "none" THEN pts
    ELSE ReadKinds(f, pts, n - 1, DictSet(ores, tag.val, pts.val))

\* num_ores_in_chunk = ...; ores = {}; the loop
ReadKindDict(f, cnt) ==
    IF cnt.err # "none" THEN cnt ELSE ReadKinds(f, cnt, cnt.val, <<>>)

RECURSIVE ReadOreChunks(_, _, _, _)
RECURSIVE StoreOreChunk(_, _, _, _, _)

ReadOreChunk(f, cc, n, d) ==
    StoreOreChunk(f, cc, ReadKindDict(f, RdI(f, cc, "ores", "nkinds")), n, d)

\* for _ in range(num_ores): coordinates, kind count, kinds
ReadOreChunks(f, r, n, d) ==
    IF r.err # "none" THEN r
    ELSE IF n <= 0 THEN Val(r, d)
    ELSE ReadOreChunk(f, RdII(f, r, "ores", "chunk"), n, d)

\* map.ores[Point(chunk_x, chunk_y)] = ores
StoreOreChunk(f, cc, ks, n, d) ==
    IF ks.err # "none" THEN ks
    ELSE ReadOreChunks(f, ks, n - 1, DictSet(d, Point(cc.val[1], cc.val[2]), ks.val))

ReadOreDict(f, cnt, d) ==
    IF cnt.err # "none" THEN cnt ELSE ReadOreChunks(f, cnt, cnt.val, d)

\* lines 67-80; val is map.ores
ReadOres(f, r, m) == ReadOreDict(f, RdI(f, r, "ores", "count"), m.ores)

RECURSIVE ReadStructureList(_, _, _, _)
RECURSIVE StoreStructure(_, _, _, _, _, _)

ReadFootprint(f, ty, ps, n, l) ==
    StoreStructure(f, ty, ps,
        ReadPointList(f, RdI(f, ps, "structures", "npoints"), "structures"), n, l)

ReadStructure(f, ty, n, l) ==
    ReadFootprint(f, ty, RdII(f, ty, "structures", "position"), n, l)

\* for _ in range(num_structures_in_chunk): type, position, footprint
ReadStructureList(f, r, n, l) ==
    IF r.err # "none" THEN r
    ELSE IF n <= 0 THEN Val(r, l)
    ELSE ReadStructure(f, RdI(f, r, "structures", "type"), n, l)

\* structures.append(Structure(structure_type, Point(...), points))
StoreStructure(f, ty, ps, pts, n, l) ==
    IF pts.err # "none" THEN pts
    ELSE ReadStructureList(f, pts, n - 1,
            Append(l, Structure(ty.val, Point(ps.val[1], ps.val[2]), pts.val)))

ReadStructuresOf(f, cnt) ==
    IF cnt.err # "none" THEN cnt ELSE ReadStructureList(f, cnt, cnt.val, <<>>)

RECURSIVE ReadStructureChunks(_, _, _, _)
RECURSIVE StoreStructureChunk(_, _, _, _, _)

ReadStructureChunk(f, cc, n, d) ==
    StoreStructureChunk(f, cc,
        ReadStructuresOf(f, RdI(f, cc, "structures", "nstructures")), n, d)

\* for _ in range(num_structures): coordinates, count, structures
ReadStructureChunks(f, r, n, d) ==
    IF r.err # "none" THEN r
    ELSE IF n <= 0 THEN Val(r, d)
    ELSE ReadStructureChunk(f, RdII(f, r, "structures", "chunk"), n, d)

\* map.structures[Point(chunk_x, chunk_y)] = structures
StoreStructureChunk(f, cc, l, n, d) ==
    IF l.err # "none" THEN l
    ELSE ReadStructureChunks(f, l, n - 1, DictSet(d, Point(cc.val[1], cc.val[2]), l.val))

ReadStructureDict(f, cnt, d) ==
    IF cnt.err # "none" THEN cnt ELSE ReadStructureChunks(f, cnt, cnt.val, d)

\* lines 82-96; val is map.structures
ReadStructures(f, r, m) ==
    ReadStructureDict(f, RdI(f, r, "structures", "count"), m.structures)

RECURSIVE ReadBuildingList(_, _, _, _)
RECURSIVE StoreBuilding(_, _, _, _, _)

ReadBuilding(f, ps, n, l) ==
    StoreBuilding(f, ps,
        ReadPointList(f, RdI(f, ps, "buildings", "npoints"), "buildings"), n, l)

\* for _ in range(num_buildings): position, footprint
ReadBuildingList(f, r, n, l) ==
    IF r.err # "none" THEN r
    ELSE IF n <= 0 THEN Val(r, l)
    ELSE ReadBuilding(f, RdII(f, r, "buildings", "position"), n, l)

\* map.buildings.append(Building(Point(...), points))
StoreBuilding(f, ps, pts, n, l) ==
    IF pts.err # "none" THEN pts
    ELSE ReadBuildingList(f, pts, n - 1,
            Append(l, Building(Point(ps.val[1], ps.val[2]), pts.val)))

ReadBuildingsOf(f, cnt, l) ==
    IF cnt.err # "none" THEN cnt ELSE ReadBuildingList(f, cnt, cnt.val, l)

\* lines 98-106; val is map.buildings
ReadBuildings(f, r, m) ==
    ReadBuildingsOf(f, RdI(f, r, "buildings", "count"), m.buildings)

RECURSIVE ReadRow(_, _, _, _)
RECURSIVE StoreSample(_, _, _, _)

\* for j in range(num_cols): chunk[i][j] = struct.unpack('f', f.read(4))[0]
ReadRow(f, r, n, row) ==
    IF r.err # "none" THEN r
    ELSE IF n <= 0 THEN Val(r, row)
    ELSE StoreSample(f, RdF(f, r, "noise", "sample"), n, row)

StoreSample(f, a, n, row) ==
    IF a.err # "none" THEN a ELSE ReadRow(f, a, n - 1, Append(row, a.val))

RECURSIVE ReadRows(_, _, _, _, _)
RECURSIVE StoreRow(_, _, _, _, _)

\* for i in range(num_rows): row i of the chunk
ReadRows(f, r, n, cols, chunk) ==
    IF r.err # "none" THEN r
    ELSE IF n <= 0 THEN Val(r, chunk)
    ELSE StoreRow(f, ReadRow(f, r, cols, <<>>), n, cols, chunk)

StoreRow(f, a, n, cols, chunk) ==
    IF a.err # "none" THEN a ELSE ReadRows(f, a, n - 1, cols, Append(chunk, a.val))

RECURSIVE ReadNoiseChunks(_, _, _, _, _)
RECURSIVE StoreNoiseChunk(_, _, _, _, _, _)

\* ReadNoiseChunk with the grid sized by Perlin.CHUNK_SIZE
ReadNoiseChunkConstant(f, cc, n, size, d) ==
    StoreNoiseChunk(f, cc, ReadRows(f, cc, CHUNK_SIZE, CHUNK_SIZE, <<>>), n, size, d)

\* num_rows = chunk_size; num_cols = chunk_size; the grid and its samples
ReadNoiseChunk(f, cc, n, size, d) ==
    StoreNoiseChunk(f, cc, ReadRows(f, cc, size, size, <<>>), n, size, d)

\* for _ in range(num_chunks): coordinates, then the samples
ReadNoiseChunks(f, r, n, size, d) ==
    IF r.err # "none" THEN r
    ELSE IF n <= 0 THEN Val(r, d)
    ELSE ReadNoiseChunk(f, RdII(f, r, "noise", "chunk"), n, size, d)

\* map.perlin.chunks[Point(chunk_x, chunk_y)] = chunk
StoreNoiseChunk(f, cc, g, n, size, d) ==
    IF g.err # "none" THEN g
    ELSE ReadNoiseChunks(f, g, n - 1, size, DictSet(d, Point(cc.val[1], cc.val[2]), g.val))

ReadNoiseDict(f, size, cnt, d) ==
    IF cnt.err # "none" THEN cnt ELSE ReadNoiseChunks(f, cnt, cnt.val, size.val, d)

ReadNoiseCount(f, size, d) == ReadNoiseDict(f, size, RdI(f, size, "noise", "count"), d)

\* lines 108-118; val is map.perlin.chunks
ReadNoise(f, r, m) == ReadNoiseCount(f, RdI(f, r, "noise", "size"), m.chunks)

----------
(* The calls, one step per section of the file *)

Init ==
    /\ world \in Worlds
    /\ file = <<>>
    /\ pc = "idle"
    /\ handle = "closed"
    /\ opens = 0
    /\ pos = 0
    /\ map = NoMap
    /\ ret = [call |-> "none", kind |-> "none", err |-> "none", val |-> NoMap]
    /\ wlog = <<>>
    /\ rlog = <<>>
    /\ done = <<>>
    /\ prov = [saved |-> "no", edit |-> "none", at |-> 0, loaded |-> FALSE]
    /\ scene = NoScene

\* the bytes a caller may overwrite a byte of the file with
TamperBytes == {0, 1, 255}
\* ExitWith leaving the file object as it is
ExitWithLeak(h) == h

\* what leaving the with block does to the file object
ExitWith(h) == "closed"

\* the section that follows section sec in save_map
SaveAfter(sec) ==
    CASE sec = "save_signature" -> "save_seed"
      [] sec = "save_seed" -> "save_ores"
      [] sec = "save_ores" -> "save_structures"
      [] sec = "save_structures" -> "save_buildings"
      [] sec = "save_buildings" -> "save_noise"
      [] sec = "save_noise" -> "save_return"
\* LoadAfter with the buildings read before the structures
LoadAfterSwapped(sec) ==
    CASE sec = "load_signature" -> "load_seed"
      [] sec = "load_seed" -> "load_ores"
      [] sec = "load_ores" -> "load_buildings"
      [] sec = "load_buildings" -> "load_structures"
      [] sec = "load_structures" -> "load_noise"
      [] sec = "load_noise" -> "load_return"

\* the section that follows section sec in load_map
LoadAfter(sec) ==
    CASE sec = "load_signature" -> "load_seed"
      [] sec = "load_seed" -> "load_ores"
      [] sec = "load_ores" -> "load_structures"
      [] sec = "load_structures" -> "load_buildings"
      [] sec = "load_buildings" -> "load_noise"
      [] sec = "load_noise" -> "load_return"

\* OpenWB leaving the content of the file in place
OpenKeep(f) == f

\* open('map.exd', 'wb'): the content of the file after the call
OpenWB(f) == <<>>

\* save_map(map) is called: open('map.exd', 'wb') empties the file
SaveOpen ==
    /\ pc = "idle"
    /\ prov.saved = "no"
    /\ file' = OpenWB(file)
    /\ handle' = "open"
    /\ opens' = 1
    /\ wlog' = <<>>
    /\ pc' = "save_signature"
    /\ ret' = [call |-> "save", kind |-> "running", err |-> "none", val |-> NoMap]
    /\ UNCHANGED <<world, pos, map, rlog, done, prov, scene>>

\* One section of save_map, whose writes are those of res beyond wlog.
\* Any of its f.write calls may raise OSError (j names the failing call, 0
\* when none fails); an exception leaves the with block, which closes f,
\* and reaches the caller.
SaveSection(res) ==
    \E j \in 0..(Len(res.log) - Len(wlog)) :
        LET fail == j > 0
            e == IF fail THEN "OSError" ELSE res.err
            n == IF fail THEN Len(wlog) + j - 1 ELSE Len(res.log)
            out == IF fail THEN Take(res.out, res.log[Len(wlog) + j].off) ELSE res.out
        IN /\ file' = out
           /\ wlog' = Take(res.log, n)
           /\ IF e = "none"
              THEN /\ pc' = SaveAfter(pc)
                   /\ UNCHANGED <<handle, ret, prov>>
              ELSE /\ pc' = "idle"
                   /\ handle' = ExitWith(handle)
                   /\ ret' = [call |-> "save", kind |-> "error", err |-> e, val |-> NoMap]
                   /\ prov' = [prov EXCEPT !.saved = e]
           /\ UNCHANGED <<world, opens, pos, map, rlog, done, scene>>

Writer == [err |-> "none", out |-> file, log |-> wlog]

SaveSig == pc = "save_signature" /\ SaveSection(WriteSignature(Writer, SaveSignature))

SaveSeed == pc = "save_seed" /\ SaveSection(WriteSeed(Writer, world))

SaveOres == pc = "save_ores" /\ SaveSection(WriteOres(Writer, world))

SaveStructures == pc = "save_structures" /\ SaveSection(WriteStructures(Writer, world))

SaveBuildings == pc = "save_buildings" /\ SaveSection(WriteBuildings(Writer, world))

SaveNoise == pc = "save_noise" /\ SaveSection(WriteNoise(Writer, world))

\* the with block ends: f is closed and save_map returns None
SaveReturn ==
    /\ pc = "save_return"
    /\ pc' = "idle"
    /\ handle' = ExitWith(handle)
    /\ ret' = [call |-> "save", kind |-> "ok", err |-> "none", val |-> NoMap]
    /\ prov' = [prov EXCEPT !.saved = "ok"]
    /\ UNCHANGED <<world, file, opens, pos, map, wlog, rlog, done, scene>>

\* between a save_map and a load_map the file is cut at a byte boundary
\* before its end
Truncate ==
    /\ pc = "idle"
    /\ prov.saved \notin {"no", "OSError"}
    /\ prov.edit = "none"
    /\ ~prov.loaded
    /\ \E k \in 0..(Len(file) - 1) :
        /\ file' = Take(file, k)
        /\ prov' = [prov EXCEPT !.edit = "truncate", !.at = k]
    /\ UNCHANGED <<world, pc, handle, opens, pos, map, ret, wlog, rlog, done, scene>>

\* between a save_map and a load_map one byte of the file is overwritten
Tamper ==
    /\ pc = "idle"
    /\ prov.saved \notin {"no", "OSError"}
    /\ prov.edit = "none"
    /\ ~prov.loaded
    /\ \E k \in 1..Len(file) : \E b \in TamperBytes \ {file[k]} :
        /\ file' = [file EXCEPT ![k] = b]
        /\ prov' = [prov EXCEPT !.edit = "tamper", !.at = k - 1]
    /\ UNCHANGED <<world, pc, handle, opens, pos, map, ret, wlog, rlog, done, scene>>

RECURSIVE RowBytes(_)
RowBytes(row) == IF row = <<>> THEN <<>> ELSE PackF(row[1]) \o RowBytes(Tail(row))

RECURSIVE GridBytes(_)
\* the samples of a grid, row 0 first, each row left to right
GridBytes(g) == IF g = <<>> THEN <<>> ELSE RowBytes(g[1]) \o GridBytes(Tail(g))

RECURSIVE StreamChunks(_)
\* the noise chunks of a stream as load_map reads them: the coordinates,
\* then the samples
StreamChunks(d) ==
    IF d = <<>> THEN <<>>
    ELSE PackII(d[1].k.x, d[1].k.y) \o GridBytes(d[1].v) \o StreamChunks(Tail(d))

\* a stream in the layout load_map reads, with nothing but noise chunks
NoiseStream(seed, size, d) ==
    LoadSignature \o PackI(seed) \o PackI(0) \o PackI(0) \o PackI(0)
        \o PackI(size) \o PackI(Len(d)) \o StreamChunks(d)

\* streams of two noise chunks of one sample each, the coordinates of the
\* second equal to those of the first or not
ForeignStreams ==
    {NoiseStream(5, 1, <<[k |-> k1, v |-> <<<<RampGrid[1][1]>>>>],
                        [k |-> k2, v |-> <<<<RampGrid[1][2]>>>>]>>) :
        k1 \in {NoiseKeys[i] : i \in 1..Len(NoiseKeys)},
        k2 \in {NoiseKeys[i] : i \in 1..Len(NoiseKeys)}}

\* before any save_map a file written by other means is put at map.exd
PlaceFile ==
    /\ pc = "idle"
    /\ prov.saved = "no"
    /\ file' \in ForeignStreams
    /\ prov' = [prov EXCEPT !.saved = "foreign", !.edit = "foreign"]
    /\ UNCHANGED <<world, pc, handle, opens, pos, map, ret, wlog, rlog, done, scene>>

\* load_map() is called: open('map.exd', 'rb')
LoadOpen ==
    /\ pc = "idle"
    /\ prov.saved # "no"
    /\ ~prov.loaded
    /\ handle' = "open"
    /\ opens' = 1
    /\ pos' = 0
    /\ map' = NoMap
    /\ rlog' = <<>>
    /\ done' = <<>>
    /\ pc' = "load_signature"
    /\ ret' = [call |-> "load", kind |-> "running", err |-> "none", val |-> NoMap]
    /\ prov' = [prov EXCEPT !.loaded = TRUE]
    /\ UNCHANGED <<world, file, wlog, scene>>

Reader == [err |-> "none", pos |-> pos, log |-> rlog, val |-> <<>>]

\* One section of load_map: res is the reader state after it, m the map
\* after it.  An exception leaves the with block, which closes f, and
\* reaches the caller.
LoadSection(res, m, name) ==
    /\ pos' = res.pos
    /\ rlog' = res.log
    /\ IF res.err = "none"
       THEN /\ pc' = LoadAfter(pc)
            /\ map' = m
            /\ done' = Append(done, name)
            /\ UNCHANGED <<handle, ret>>
       ELSE /\ pc' = "idle"
            /\ handle' = ExitWith(handle)
            /\ ret' = [call |-> "load", kind |-> "error", err |-> res.err, val |-> NoMap]
            /\ UNCHANGED <<map, done>>
    /\ UNCHANGED <<world, file, opens, wlog, prov, scene>>

LoadSig ==
    /\ pc = "load_signature"
    /\ LoadSection(ReadSignature(file, Reader), map, "signature")

\* seed = ...; map = Map(seed)
LoadSeed ==
    /\ pc = "load_seed"
    /\ LET res == ReadSeed(file, Reader)
       IN LoadSection(res, IF res.err = "none" THEN MapNew(res.val) ELSE map, "seed")

LoadOres ==
    /\ pc = "load_ores"
    /\ LET res == ReadOres(file, Reader, map)
       IN LoadSection(res, IF res.err = "none" THEN [map EXCEPT !.ores = res.val] ELSE map,
                      "ores")

LoadStructures ==
    /\ pc = "load_structures"
    /\ LET res == ReadStructures(file, Reader, map)
       IN LoadSection(res,
                      IF res.err = "none" THEN [map EXCEPT !.structures = res.val] ELSE map,
                      "structures")

LoadBuildings ==
    /\ pc = "load_buildings"
    /\ LET res == ReadBuildings(file, Reader, map)
       IN LoadSection(res,
                      IF res.err = "none" THEN [map EXCEPT !.buildings = res.val] ELSE map,
                      "buildings")

LoadNoise ==
    /\ pc = "load_noise"
    /\ LET res == ReadNoise(file, Reader, map)
       IN LoadSection(res, IF res.err = "none" THEN [map EXCEPT !.chunks = res.val] ELSE map,
                      "noise")

\* return map: the with block ends, f is closed
LoadReturn ==
    /\ pc = "load_return"
    /\ pc' = "idle"
    /\ handle' = ExitWith(handle)
    /\ ret' = [call |-> "load", kind |-> "ok", err |-> "none", val |-> map]
    /\ UNCHANGED <<world, file, opens, pos, map, wlog, rlog, done, prov, scene>>

Next ==
    \/ SaveOpen \/ SaveSig \/ SaveSeed \/ SaveOres \/ SaveStructures
    \/ SaveBuildings \/ SaveNoise \/ SaveReturn
    \/ Truncate \/ Tamper \/ PlaceFile
    \/ LoadOpen \/ LoadSig \/ LoadSeed \/ LoadOres \/ LoadStructures
    \/ LoadBuildings \/ LoadNoise \/ LoadReturn

Spec == Init /\ [][Next]_vars

----------------------------------------------------------------------------
(* A save_map of one process and a load_map of another on the same file.   *)
(* map.exd holds an older stream when save_map is called.  The file object *)
(* of save_map is buffered: an f.write reaches the file at a later flush,  *)
(* at the latest when the with block closes f.  Here world, wlog and       *)
(* prov.saved are the saving process's; pc, handle, opens, pos, map, ret,  *)
(* rlog and done are the loading process's, whose whole call runs between  *)
(* two steps of the save.                                                  *)

\* the stream map.exd holds before the save: seed 7, one noise chunk
OldFile == NoiseStream(7, 1, <<[k |-> NoiseKeys[2], v |-> <<<<RampGrid[1][1]>>>>]>>)

\* the worlds saved next to a load
SharedWorlds == {w \in Worlds : Weight(w) <= 2}

InitShared ==
    /\ world \in SharedWorlds
    /\ file = OldFile
    /\ pc = "idle"
    /\ handle = "closed"
    /\ opens = 0
    /\ pos = 0
    /\ map = NoMap
    /\ ret = [call |-> "none", kind |-> "none", err |-> "none", val |-> NoMap]
    /\ wlog = <<>>
    /\ rlog = <<>>
    /\ done = <<>>
    /\ prov = [saved |-> "no", edit |-> "none", at |-> 0, loaded |-> FALSE]
    /\ scene = NoScene

\* the f.write calls save_map(m) makes when no write fails, and how it ends
SaveRun(m) ==
    WriteNoise(WriteBuildings(WriteStructures(WriteOres(WriteSeed(
        WriteSignature([err |-> "none", out |-> <<>>, log |-> <<>>], SaveSignature),
        m), m), m), m), m)

\* the bytes of the first n f.write calls of save_map(m)
Written(m, n) ==
    IF n = 0 THEN <<>>
    ELSE Take(SaveRun(m).out, SaveRun(m).log[n].off + SaveRun(m).log[n].w)

\* the file after the bytes b were written to it from offset 0 on
FlushTo(f, b) == b \o SubSeq(f, Len(b) + 1, Len(f))

\* the other process calls save_map(world): open('map.exd', 'wb')
SharedOpen ==
    /\ pc = "idle"
    /\ prov.saved = "no"
    /\ file' = OpenWB(file)
    /\ wlog' = <<>>
    /\ prov' = [prov EXCEPT !.saved = "running"]
    /\ UNCHANGED <<world, pc, handle, opens, pos, map, ret, rlog, done, scene>>

\* the next f.write of the save; its bytes stay in the buffer of f
SharedWrite ==
    /\ pc = "idle"
    /\ prov.saved = "running"
    /\ Len(wlog) < Len(SaveRun(world).log)
    /\ wlog' = Take(SaveRun(world).log, Len(wlog) + 1)
    /\ UNCHANGED <<world, file, pc, handle, opens, pos, map, ret, rlog, done, prov, scene>>

\* the buffer of f is flushed: everything written so far is in the file
SharedFlush ==
    /\ pc = "idle"
    /\ prov.saved = "running"
    /\ file # FlushTo(file, Written(world, Len(wlog)))
    /\ file' = FlushTo(file, Written(world, Len(wlog)))
    /\ UNCHANGED <<world, pc, handle, opens, pos, map, ret, wlog, rlog, done, prov, scene>>

\* a flush fails with OSError at the bytes of the j-th f.write: what was
\* written before them is in the file, and save_map is left
SharedFail ==
    /\ pc = "idle"
    /\ prov.saved = "running"
    /\ \E j \in 1..Len(wlog) :
        /\ wlog[j].off >= Len(file)
        /\ file' = FlushTo(file, Take(SaveRun(world).out, wlog[j].off))
    /\ prov' = [prov EXCEPT !.saved = "OSError"]
    /\ UNCHANGED <<world, pc, handle, opens, pos, map, ret, wlog, rlog, done, scene>>

\* save_map leaves the with block, at its end or by the exception it
\* raised: f is flushed and closed
SharedClose ==
    /\ pc = "idle"
    /\ prov.saved = "running"
    /\ Len(wlog) = Len(SaveRun(world).log)
    /\ file' = FlushTo(file, SaveRun(world).out)
    /\ prov' = [prov EXCEPT !.saved =
                    IF SaveRun(world).err = "none" THEN "ok" ELSE SaveRun(world).err]
    /\ UNCHANGED <<world, pc, handle, opens, pos, map, ret, wlog, rlog, done, scene>>

NextShared ==
    \/ SharedOpen \/ SharedWrite \/ SharedFlush \/ SharedFail \/ SharedClose
    \/ LoadOpen \/ LoadSig \/ LoadSeed \/ LoadOres \/ LoadStructures
    \/ LoadBuildings \/ LoadNoise \/ LoadReturn

SpecShared == InitShared /\ [][NextShared]_vars

----------------------------------------------------------------------------
(* src/vue/SettingScene.py.  scene is the SettingsScene object: its fields *)
(* volume, resolution, scale, running and parameter, the values of its     *)
(* slider and its menu, its two buttons, and what its calls act on: the    *)
(* volume of the music, the events posted and the calls of                 *)
(* core.update_parameter.  Lengths are in thousandths of the screen,       *)
(* volumes in tenths, the scale in hundredths.                             *)

\* the number of handle_events and update calls of a behaviour
MaxCalls == 3

\* button_width = self.screen.get_width() * 0.156
ButtonWidth == 156
\* button_height = self.screen.get_height() * 0.062
ButtonHeight == 62
\* the y of both buttons: self.screen.get_height() * 0.9
ButtonY == 900

\* the volumes of the slider, from 0.0 to 1.0
Volumes == {2, 8}

\* resolutions of the menu
Resolutions == {<<800, 600>>, <<1024, 768>>}

\* Button(text, x, y, width, height, color, ...), x the middle of the button
Button(text, mid, color) ==
    [text |-> text, x |-> mid - ButtonWidth \div 2, y |-> ButtonY, w |-> ButtonWidth,
     h |-> ButtonHeight, color |-> color]

\* the events handle_events is called with; x and y are those of the pointer
Events ==
    [type : {"MOUSEBUTTONDOWN", "MOUSEMOTION"}, x : {250, 500, 750}, y : {100, 930}]
        \cup {[type |-> "QUIT", x |-> 0, y |-> 0]}

\* the pointer of the event is inside the button
Inside(button, event) ==
    /\ button.x <= event.x /\ event.x <= button.x + button.w
    /\ button.y <= event.y /\ event.y <= button.y + button.h

\* Button.is_clicked(event)
is_clicked(button, event) == event.type = "MOUSEBUTTONDOWN" /\ Inside(button, event)

\* Button.is_hovered(event)
is_hovered(button, event) == Inside(button, event)

\* the object SettingsScene(core, parent_render) constructs, with the volume
\* of the music, the size of the screen and the parameter entries it finds
NewScene(music, screen, parameter) ==
    [t |-> "SettingsScene", scale |-> 0, volume |-> music, resolution |-> screen,
     volume_slider |-> music, resolution_menu |-> screen,
     apply_button |-> Button("Ok", 750, <<0, 255, 0>>),
     cancel_button |-> Button("Retour", 250, <<255, 0, 0>>),
     parameter |-> parameter, running |-> TRUE,
     music |-> music, posted |-> <<>>, updated |-> <<>>,
     calls |-> 0,
     call |-> [op |-> "none", event |-> [type |-> "none", x |-> 0, y |-> 0],
               parameter |-> parameter, updated |-> 0, posted |-> 0]]

Parameters ==
    {[volume |-> v, width |-> r[1], height |-> r[2]] : v \in Volumes, r \in Resolutions}

\* change_button_color(button, hovered)
change_button_color(button, hovered) ==
    [button EXCEPT !.color =
        IF hovered
        THEN IF button.text = "Ok" THEN <<0, 255, 0>> ELSE <<255, 0, 0>>
        ELSE IF button.text = "Ok" THEN <<0, 200, 0>> ELSE <<200, 0, 0>>]

\* pygame.event.post(pygame.event.Event(self.event, {"scene": name}))
Post(s, name) == [s EXCEPT !.posted = Append(@, name)]

\* self.core.update_parameter(self.parameter)
UpdateParameter(s) == [s EXCEPT !.updated = Append(@, s.parameter)]

\* the three assignments to self.parameter
SetParameter(s) ==
    [s EXCEPT !.parameter = [volume |-> s.volume, width |-> s.resolution[1],
                             height |-> s.resolution[2]]]

\* the branch of the apply button
Apply(s) == [Post(UpdateParameter(SetParameter(s)), "title") EXCEPT !.running = FALSE]

\* Cancel storing the settings as Apply does
CancelCommit(s) == Apply(s)

\* the branch of the cancel button
Cancel(s) == [Post(s, "title") EXCEPT !.running = FALSE]

\* the branch of a pointer motion: both buttons take the colour of their state
Hover(s, event) ==
    [s EXCEPT
        !.apply_button = change_button_color(@, is_hovered(@, event)),
        !.cancel_button = change_button_color(@, is_hovered(@, event))]

\* the if / elif chain of handle_events
Branch(s, event) ==
    IF is_clicked(s.apply_button, event) THEN Apply(s)
    ELSE IF is_clicked(s.cancel_button, event) THEN Cancel(s)
    ELSE IF event.type = "MOUSEMOTION" THEN Hover(s, event)
    ELSE s

\* self.volume_slider.handle_event(event); self.resolution_menu.handle_event(event):
\* v and r are the values the slider and the menu hold after them
Widgets(s, v, r) == [s EXCEPT !.volume_slider = v, !.resolution_menu = r]

\* if event.type == pygame.QUIT: post the scene change to "quit"
Quit(s, event) == IF event.type = "QUIT" THEN Post(s, "quit") ELSE s

handle_events(s, event, v, r) == Quit(Widgets(Branch(s, event), v, r), event)

update(s) ==
    [s EXCEPT !.volume = s.volume_slider, !.music = s.volume_slider,
              !.resolution = s.resolution_menu,
              !.scale = IF s.scale < 99 THEN s.scale + 5 ELSE s.scale]

\* the scene after a call, with the record of that call: what it was and
\* what the parameter entries, the calls of update_parameter and the posted
\* events were before it
Called(after, before, op, event) ==
    [after EXCEPT !.calls = before.calls + 1,
                  !.call = [op |-> op, event |-> event, parameter |-> before.parameter,
                            updated |-> Len(before.updated),
                            posted |-> Len(before.posted)]]

saver == <<world, file, pc, handle, opens, pos, map, ret, wlog, rlog, done, prov>>

InitSettings ==
    /\ world = NoMap
    /\ file = <<>>
    /\ pc = "idle"
    /\ handle = "closed"
    /\ opens = 0
    /\ pos = 0
    /\ map = NoMap
    /\ ret = [call |-> "none", kind |-> "none", err |-> "none", val |-> NoMap]
    /\ wlog = <<>>
    /\ rlog = <<>>
    /\ done = <<>>
    /\ prov = [saved |-> "no", edit |-> "none", at |-> 0, loaded |-> FALSE]
    /\ \E music \in Volumes, screen \in Resolutions, parameter \in Parameters :
        scene = NewScene(music, screen, parameter)

\* the scene is handed an event
HandleEvents ==
    /\ scene.calls < MaxCalls
    /\ \E event \in Events, v \in Volumes, r \in Resolutions :
        scene' = Called(handle_events(scene, event, v, r), scene, "handle_events", event)
    /\ UNCHANGED saver

\* the scene is updated for the next frame
Update ==
    /\ scene.calls < MaxCalls
    /\ scene' = Called(update(scene), scene, "update", [type |-> "none", x |-> 0, y |-> 0])
    /\ UNCHANGED saver

NextSettings == HandleEvents \/ Update

SpecSettings == InitSettings /\ [][NextSettings]_vars

----------------------------------------------------------------------------
(* Properties *)

\* load_map has handed its result to the caller
LoadDone == pc = "idle" /\ ret.call = "load"

\* the file is what save_map(world) left, no write having failed
Unedited == prov.edit = "none" /\ prov.saved \notin {"no", "OSError"}

Items(d) == {d[i] : i \in 1..Len(d)}

OreItems(d) == {[k |-> d[i].k, v |-> Items(d[i].v)] : i \in 1..Len(d)}

NoiseItems(d) == {[x |-> d[i].k.x, y |-> d[i].k.y, v |-> d[i].v] : i \in 1..Len(d)}

\* equality of two Maps, mappings compared without regard to order
SameWorld(m, w) ==
    /\ m.seed = w.seed
    /\ OreItems(m.ores) = OreItems(w.ores)
    /\ Items(m.structures) = Items(w.structures)
    /\ m.buildings = w.buildings
    /\ NoiseItems(m.chunks) = NoiseItems(w.chunks)

IsPrefix(a, b) == Len(a) <= Len(b) /\ a = SubSeq(b, 1, Len(a))

Sections == <<"signature", "seed", "ores", "structures", "buildings", "noise">>

SecIdx(sec) == CHOOSE i \in 1..Len(Sections) : Sections[i] = sec

\* C1: load_map after save_map(w) returns a Map equal to w, for every input
\* world w, noise chunks included.
C1_RoundTrip ==
    (LoadDone /\ Unedited) => (ret.kind = "ok" /\ SameWorld(ret.val, world))

\* C2: load_map on a proper prefix of a stream save_map produced fails with
\* the short-read error and returns no Map.
C2_TruncatedFails ==
    (ret.call = "load" /\ prov.edit = "truncate") =>
        /\ pc # "load_return"
        /\ ret.kind # "ok"
        /\ ret.val = NoMap
        /\ pc = "idle" => (ret.kind = "error" /\ ret.err = "struct.error")

\* a load_map that failed on a file cut inside its noise section
C2_Witness ==
    /\ LoadDone
    /\ prov.edit = "truncate"
    /\ ret.err = "struct.error"
    /\ done = SubSeq(Sections, 1, 5)
    /\ \E i \in 1..Len(wlog) : wlog[i].sec = "noise" /\ wlog[i].off < prov.at

\* C3: on a file of at least 4 bytes whose first 4 bytes are not 77, 65, 80,
\* 0, load_map fails with "Invalid file format" having read nothing but the
\* signature and built no Map.
C3_SignatureRejected ==
    (ret.call = "load" /\ pc # "load_signature" /\ Len(file) >= 4
        /\ SubSeq(file, 1, 4) # <<77, 65, 80, 0>>) =>
        /\ pc = "idle"
        /\ ret.kind = "error"
        /\ ret.err = "Invalid file format"
        /\ ret.val = NoMap
        /\ map = NoMap
        /\ done = <<>>
        /\ pos = 4
        /\ Len(rlog) = 1

\* a load_map rejected for its signature
C3_Witness ==
    LoadDone /\ ret.err = "Invalid file format" /\ prov.edit = "tamper" /\ Len(file) > 4

\* the fields of a save_map: its write calls, the four calls that write the
\* signature taken as one field
Fields(log) ==
    IF Len(log) >= 4
    THEN <<[sec |-> "signature", kind |-> "signature", off |-> 0, w |-> 4]>>
            \o SubSeq(log, 5, Len(log))
    ELSE log

\* C4: load_map on what save_map(w) wrote reads the fields save_map wrote,
\* each at the offset and with the width it was written with, the row count
\* of every noise chunk included, and returns with nothing left unread.
C4_FieldsAgree ==
    (ret.call = "load" /\ Unedited) =>
        /\ IsPrefix(rlog, Fields(wlog))
        /\ pc = "idle" => (ret.kind = "ok" /\ rlog = Fields(wlog) /\ pos = Len(file))

RECURSIVE ChunksBytes(_)
ChunksBytes(d) ==
    IF d = <<>> THEN <<>>
    ELSE PackII(d[1].k.x, d[1].k.y) \o PackI(CHUNK_SIZE) \o GridBytes(d[1].v)
            \o ChunksBytes(Tail(d))

\* the noise section as the format lays it out
NoiseLayout(m) == PackI(CHUNK_SIZE) \o PackI(Len(m.chunks)) \o ChunksBytes(m.chunks)

\* where the noise section of the file starts
NoiseStart == (CHOOSE i \in 1..Len(wlog) : wlog[i].kind = "size").off

\* C5: the noise section save_map writes is CHUNK_SIZE, the chunk count and,
\* per chunk, the two coordinates, a row count equal to CHUNK_SIZE and the
\* CHUNK_SIZE * CHUNK_SIZE samples in row-major order.
C5_NoiseLayout ==
    (Unedited /\ prov.saved # "struct.error") =>
        /\ prov.saved = "ok"
        /\ SubSeq(file, NoiseStart + 1, Len(file)) = NoiseLayout(world)

\* C6: when save_map completed, load_map returns a Map with the same points
\* in the same order for every chunk and ore kind, the same structures in
\* the same order for every chunk, and the same buildings in the same order.
C6_OrderPreserved ==
    (LoadDone /\ Unedited /\ prov.saved = "ok") =>
        /\ ret.kind = "ok"
        /\ DictKeys(ret.val.ores) = DictKeys(world.ores)
        /\ \A c \in DictKeys(world.ores) :
            /\ DictKeys(DictGet(ret.val.ores, c)) = DictKeys(DictGet(world.ores, c))
            /\ \A k \in DictKeys(DictGet(world.ores, c)) :
                DictGet(DictGet(ret.val.ores, c), k) = DictGet(DictGet(world.ores, c), k)
        /\ DictKeys(ret.val.structures) = DictKeys(world.structures)
        /\ \A c \in DictKeys(world.structures) :
            DictGet(ret.val.structures, c) = DictGet(world.structures, c)
        /\ ret.val.buildings = world.buildings

\* a Map returned for a world with an ore kind of two points
C6_Witness ==
    /\ LoadDone /\ Unedited /\ prov.saved = "ok" /\ ret.kind = "ok"
    /\ \E i \in 1..Len(world.ores) : \E j \in 1..Len(world.ores[i].v) :
        /\ Len(world.ores[i].v[j].v) = 2
        /\ world.ores[i].v[j].v[1] # world.ores[i].v[j].v[2]

EmptyWorld ==
    world.ores = <<>> /\ world.structures = <<>> /\ world.buildings = <<>>
        /\ world.chunks = <<>>

\* C7: save_map writes the empty world as the signature, the seed, three
\* zero counts, CHUNK_SIZE and a zero count, 28 bytes in all, and load_map
\* returns from them a Map with that seed and nothing in it.
C7_EmptyWorld ==
    (EmptyWorld /\ prov.saved = "ok" /\ prov.edit = "none") =>
        /\ file = <<77, 65, 80, 0>> \o PackI(world.seed) \o <<0, 0, 0, 0>>
                    \o <<0, 0, 0, 0>> \o <<0, 0, 0, 0>> \o <<CHUNK_SIZE, 0, 0, 0>>
                    \o <<0, 0, 0, 0>>
        /\ Len(file) = 28
        /\ LoadDone =>
            /\ ret.kind = "ok"
            /\ ret.val = [t |-> "Map", seed |-> world.seed, ores |-> <<>>,
                          structures |-> <<>>, buildings |-> <<>>, chunks |-> <<>>]

\* the empty world saved and loaded
C7_Witness ==
    EmptyWorld /\ prov.saved = "ok" /\ prov.edit = "none" /\ LoadDone /\ ret.kind = "ok"

\* the decoder has read an ore tag that is the value of no OreType member
UnknownTagRead(i) ==
    /\ rlog[i].kind = "tag"
    /\ rlog[i].off < Len(file)
    /\ file[rlog[i].off + 1] \notin OreTypeValues

\* C8: once load_map has read an ore tag that is the value of no OreType
\* member it has failed at that tag with ValueError and returns no Map.
C8_UnknownTag ==
    \A i \in 1..Len(rlog) :
        (ret.call = "load" /\ UnknownTagRead(i)) =>
            /\ pc = "idle"
            /\ ret.kind = "error"
            /\ ret.err = "ValueError"
            /\ ret.val = NoMap
            /\ i = Len(rlog)

\* a load_map that met an unknown ore tag
C8_Witness == LoadDone /\ UnknownTagRead(Len(rlog)) /\ ret.err = "ValueError"

\* C9: whenever no call is running the file object is closed, whatever way
\* the last call ended, and a call opens the file once.
C9_HandleReleased ==
    /\ pc = "idle" => handle = "closed"
    /\ pc # "idle" => handle = "open"
    /\ opens <= 1

\* a load_map that hit a short read of a file a failed write left behind
C9_Witness ==
    /\ LoadDone /\ ret.err = "struct.error" /\ prov.saved = "OSError"
    /\ handle = "closed"

\* C10: load_map reads the sections in the order signature, seed, ores,
\* structures, buildings, noise, each only after the one before is
\* complete; it returns a Map only after the noise section, and a failure
\* in any section gives the caller an error and no Map.
C10_SectionOrder ==
    /\ IsPrefix(done, Sections)
    /\ \A i \in 1..Len(rlog) : SecIdx(rlog[i].sec) <= Len(done) + 1
    /\ \A i \in 1..(Len(rlog) - 1) :
        /\ SecIdx(rlog[i].sec) <= SecIdx(rlog[i + 1].sec)
        /\ rlog[i].off + rlog[i].w <= rlog[i + 1].off
    /\ (ret.call = "load" /\ ret.kind = "ok") => (done = Sections /\ ret.val = map)
    /\ (ret.call = "load" /\ ret.kind # "ok") => ret.val = NoMap

\* a Map returned after ores, a structure and a building were read
C10_Witness ==
    /\ LoadDone /\ ret.kind = "ok"
    /\ ret.val.ores # <<>> /\ ret.val.structures # <<>> /\ ret.val.buildings # <<>>

\* len(range(n)): the number of iterations of a loop over range(n)
RangeLen(n) == IF n < 0 THEN 0 ELSE n

\* the position in rlog of the read of the chunk size, 0 before that read
SizeRead ==
    IF \E i \in 1..Len(rlog) : rlog[i].kind = "size"
    THEN CHOOSE i \in 1..Len(rlog) : rlog[i].kind = "size"
    ELSE 0

\* the chunk size load_map unpacked at the start of the noise section
StreamSize == UnpackI(SubSeq(file, rlog[SizeRead].off + 1, rlog[SizeRead].off + 4))

\* the chunk size has been read in full
SizeKnown == SizeRead > 0 /\ rlog[SizeRead].off + 4 <= Len(file)

\* the number of samples of a chunk of side s; a file of n bytes holds
\* fewer than n samples, so a larger number is as good as n + 1
SampleCount(s) == IF RangeLen(s) > Len(file) THEN Len(file) + 1 ELSE RangeLen(s) * RangeLen(s)

\* the grid g has s rows of s samples
Square(g, s) == Len(g) = RangeLen(s) /\ \A i \in 1..Len(g) : Len(g[i]) = RangeLen(s)

\* C11: with s the chunk size load_map read from the stream, the reads that
\* follow the coordinates of a noise chunk are s * s sample reads (none for
\* a negative s), the next read after them is the next chunk's coordinates,
\* and every grid of the Map load_map builds has s rows of s samples,
\* whatever Perlin.CHUNK_SIZE is.
C11_StreamSizeAuthoritative ==
    SizeKnown =>
        /\ \A k \in 1..Len(rlog) : (rlog[k].sec = "noise" /\ rlog[k].kind = "chunk") =>
            /\ \A j \in (k + 1)..Min(Len(rlog), k + SampleCount(StreamSize)) :
                rlog[j].kind = "sample"
            /\ Len(rlog) > k + SampleCount(StreamSize) =>
                rlog[k + SampleCount(StreamSize) + 1].kind = "chunk"
            /\ done = Sections => Len(rlog) >= k + SampleCount(StreamSize)
        /\ done = Sections =>
            \A c \in 1..Len(map.chunks) : Square(map.chunks[c].v, StreamSize)
        /\ (ret.call = "load" /\ ret.kind = "ok") =>
            \A c \in 1..Len(ret.val.chunks) : Square(ret.val.chunks[c].v, StreamSize)

\* a Map returned with a noise chunk of one sample, read from a stream whose
\* chunk size is 1 while Perlin.CHUNK_SIZE is 2
C11_Witness ==
    /\ LoadDone /\ ret.kind = "ok"
    /\ SizeKnown /\ StreamSize = 1 /\ StreamSize # CHUNK_SIZE
    /\ ret.val.chunks # <<>>
    /\ Len(ret.val.chunks[1].v) = 1 /\ Len(ret.val.chunks[1].v[1]) = 1
    /\ Cardinality({j \in 1..Len(rlog) : rlog[j].kind = "sample"}) = 1

\* C12: every key of the noise chunks of a Map load_map returns is a bare
\* pair of two integers, the representation save_map indexes by position
\* (chunk_coords[0], chunk_coords[1]), never a Point.
C12_NoiseKeysArePairs ==
    (ret.call = "load" /\ ret.kind = "ok") =>
        \A c \in 1..Len(ret.val.chunks) :
            /\ ret.val.chunks[c].k.t = "tuple"
            /\ ret.val.chunks[c].k.x \in Int
            /\ ret.val.chunks[c].k.y \in Int

\* the fields that bound a loop of load_map
CountKinds == {"count", "nkinds", "npoints", "nstructures", "size"}

\* the i-th read of load_map was a count field, read in full, and negative
NegativeCountRead(i) ==
    /\ rlog[i].kind \in CountKinds
    /\ rlog[i].off + 4 <= Len(file)
    /\ UnpackI(SubSeq(file, rlog[i].off + 1, rlog[i].off + 4)) < 0

\* the first read of an iteration of the loop a count field bounds
LoopBody(sec, kind) ==
    CASE kind = "count" -> IF sec = "buildings" THEN "position" ELSE "chunk"
      [] kind = "nkinds" -> "tag"
      [] kind = "npoints" -> "point"
      [] kind = "nstructures" -> "type"
      [] kind = "size" -> "sample"

\* C13: a negative count field (chunk count, kinds per chunk, point count,
\* structures per chunk, footprint length, building count, noise chunk size,
\* noise chunk count) raises no error; the loop it bounds runs zero times
\* and load_map goes on with the field that follows it in the stream.
C13_NegativeCountsEmpty ==
    \A i \in 1..Len(rlog) : NegativeCountRead(i) =>
        /\ i = Len(rlog) => ret.kind # "error"
        /\ i < Len(rlog) =>
            /\ rlog[i + 1].off = rlog[i].off + 4
            /\ rlog[i + 1].kind # LoopBody(rlog[i].sec, rlog[i].kind)
        /\ rlog[i].kind = "size" =>
            \A j \in (i + 1)..Len(rlog) : rlog[j].kind # "sample"
        /\ (rlog[i].sec = "noise" /\ rlog[i].kind = "count") =>
            (i = Len(rlog) /\ done = Sections /\ map.chunks = <<>>)

\* a Map returned from a stream with a negative point count, read on after
\* that count
C13_Witness ==
    /\ LoadDone /\ ret.kind = "ok"
    /\ \E i \in 1..(Len(rlog) - 1) : NegativeCountRead(i) /\ rlog[i].kind = "npoints"

\* a reader placed at offset p of the file
At(p) == [err |-> "none", pos |-> p, log |-> <<>>, val |-> <<>>]

\* load_map has completed the section sec
SectionDone(sec) == \E i \in 1..Len(done) : done[i] = sec

\* the reads of chunk coordinates of a section, by their position in rlog
ChunkReads(sec) ==
    {i \in 1..Len(rlog) :
        rlog[i].sec = sec /\ rlog[i].kind = "chunk" /\ rlog[i].off + 8 <= Len(file)}

\* the chunk coordinates the i-th read read
KeyRead(i) ==
    Point(UnpackI(SubSeq(file, rlog[i].off + 1, rlog[i].off + 4)),
          UnpackI(SubSeq(file, rlog[i].off + 5, rlog[i].off + 8)))

\* the reads of ore tags of the chunk entry whose coordinates the i-th read
\* read: those up to the next chunk entry
TagReads(i) ==
    {j \in (i + 1)..Len(rlog) :
        /\ rlog[j].sec = "ores" /\ rlog[j].kind = "tag" /\ rlog[j].off < Len(file)
        /\ \A c \in ChunkReads("ores") : c > i => j < c}

\* the ore tag the j-th read read
TagRead(j) == file[rlog[j].off + 1]

\* the entries of I that no later entry of I repeats the key of
LastOf(I, Key(_)) == {i \in I : \A j \in I : j > i => Key(j) # Key(i)}

\* the entries of I that repeat the key of an earlier entry of I
Repeats(I, Key(_)) == {j \in I : \E i \in I : i < j /\ Key(i) = Key(j)}

\* the point list that follows the ore tag the j-th read read
PointsRead(j) ==
    ReadPointList(file, RdI(file, At(rlog[j].off + 1), "ores", "npoints"), "ores").val

\* the structure list that follows the chunk coordinates the i-th read read
StructuresRead(i) ==
    ReadStructuresOf(file, RdI(file, At(rlog[i].off + 8), "structures", "nstructures")).val

\* the grid that follows the chunk coordinates the i-th read read
GridRead(i) == ReadRows(file, At(rlog[i].off + 8), StreamSize, StreamSize, <<>>).val

\* the count field that opens section sec
Announced(sec) ==
    LET i == CHOOSE i \in 1..Len(rlog) : rlog[i].sec = sec /\ rlog[i].kind = "count"
    IN UnpackI(SubSeq(file, rlog[i].off + 1, rlog[i].off + 4))

\* C14: a stream that repeats a chunk coordinate in the ore, structure or
\* noise section, or an ore tag inside one chunk entry, raises no error at
\* the repeated key; each mapping of the Map has unique keys, holds for
\* every key exactly what the last entry with that key carried (nothing of
\* an earlier entry), and has at most as many entries as its count field
\* announced.
C14_LastWins ==
    /\ \A sec \in {"ores", "structures", "noise"} :
        \A i \in Repeats(ChunkReads(sec), KeyRead) :
            i = Len(rlog) => ret.kind # "error"
    /\ \A c \in ChunkReads("ores") : \A j \in Repeats(TagReads(c), TagRead) :
            j = Len(rlog) => ret.kind # "error"
    /\ SectionDone("ores") =>
        /\ UniqueKeys(map.ores)
        /\ \A c \in 1..Len(map.ores) : UniqueKeys(map.ores[c].v)
        /\ OreItems(map.ores) =
            {[k |-> KeyRead(i),
              v |-> {[k |-> TagRead(j), v |-> PointsRead(j)] :
                        j \in LastOf(TagReads(i), TagRead)}] :
                i \in LastOf(ChunkReads("ores"), KeyRead)}
        /\ Len(map.ores) <= RangeLen(Announced("ores"))
    /\ SectionDone("structures") =>
        /\ UniqueKeys(map.structures)
        /\ Items(map.structures) =
            {[k |-> KeyRead(i), v |-> StructuresRead(i)] :
                i \in LastOf(ChunkReads("structures"), KeyRead)}
        /\ Len(map.structures) <= RangeLen(Announced("structures"))
    /\ SectionDone("noise") =>
        /\ UniqueKeys(map.chunks)
        /\ Items(map.chunks) =
            {[k |-> KeyRead(i), v |-> GridRead(i)] :
                i \in LastOf(ChunkReads("noise"), KeyRead)}
        /\ Len(map.chunks) <= RangeLen(Announced("noise"))

\* a Map returned from a stream whose two noise chunks have the same
\* coordinates: one chunk, holding the sample of the second
C14_Witness ==
    /\ LoadDone /\ ret.kind = "ok"
    /\ Repeats(ChunkReads("noise"), KeyRead) # {}
    /\ Announced("noise") = 2
    /\ Len(ret.val.chunks) = 1
    /\ ret.val.chunks[1].v = <<<<RampGrid[1][2]>>>>

RECURSIVE PointsBytes(_)
\* the format's encoding of a point list: the points, two integers each
PointsBytes(pts) ==
    IF pts = <<>> THEN <<>> ELSE PackII(pts[1].x, pts[1].y) \o PointsBytes(Tail(pts))

RECURSIVE KindsBytes(_)
\* per ore kind: the tag byte, the point count, the points
KindsBytes(d) ==
    IF d = <<>> THEN <<>>
    ELSE <<d[1].k>> \o PackI(Len(d[1].v)) \o PointsBytes(d[1].v) \o KindsBytes(Tail(d))

RECURSIVE OreChunksBytes(_)
\* per chunk entry: the coordinates, the kind count, the kinds
OreChunksBytes(d) ==
    IF d = <<>> THEN <<>>
    ELSE PackII(d[1].k.x, d[1].k.y) \o PackI(Len(d[1].v)) \o KindsBytes(d[1].v)
            \o OreChunksBytes(Tail(d))

RECURSIVE StructureListBytes(_)
\* per structure: the type, the position, the footprint length, the footprint
StructureListBytes(l) ==
    IF l = <<>> THEN <<>>
    ELSE PackI(l[1].ty) \o PackII(l[1].position.x, l[1].position.y)
            \o PackI(Len(l[1].points)) \o PointsBytes(l[1].points)
            \o StructureListBytes(Tail(l))

RECURSIVE StructureChunksBytes(_)
StructureChunksBytes(d) ==
    IF d = <<>> THEN <<>>
    ELSE PackII(d[1].k.x, d[1].k.y) \o PackI(Len(d[1].v)) \o StructureListBytes(d[1].v)
            \o StructureChunksBytes(Tail(d))

RECURSIVE BuildingListBytes(_)
\* per building: the position, the footprint length, the footprint
BuildingListBytes(l) ==
    IF l = <<>> THEN <<>>
    ELSE PackII(l[1].position.x, l[1].position.y) \o PackI(Len(l[1].points))
            \o PointsBytes(l[1].points) \o BuildingListBytes(Tail(l))

\* the full encoding of a Map as the format lays it out, section by section
FullEncoding(m) ==
    <<77, 65, 80, 0>> \o PackI(m.seed)
        \o PackI(Len(m.ores)) \o OreChunksBytes(m.ores)
        \o PackI(Len(m.structures)) \o StructureChunksBytes(m.structures)
        \o PackI(Len(m.buildings)) \o BuildingListBytes(m.buildings)
        \o NoiseLayout(m)

\* C15: from the open of save_map on, the file holds none of its previous
\* content: it is empty at the open and at every later point, also after
\* save_map was left by an exception, a prefix of the full encoding of the
\* world, no longer than what was written; a load_map run between two
\* writes or after the save reads bytes of that encoding only, and a Map
\* it builds has the seed of the world being saved.
C15_PrefixOfEncoding ==
    prov.saved # "no" =>
        /\ IsPrefix(file, FullEncoding(world))
        /\ Len(file) <= Len(Written(world, Len(wlog)))
        /\ (prov.saved = "running" /\ wlog = <<>>) => file = <<>>
        /\ prov.saved \notin {"running", "OSError"} =>
            file = Written(world, Len(SaveRun(world).log))
        /\ \A i \in 1..Len(rlog) :
            SubSeq(file, rlog[i].off + 1, Min(rlog[i].off + rlog[i].w, Len(file)))
                = SubSeq(FullEncoding(world), rlog[i].off + 1,
                         Min(rlog[i].off + rlog[i].w, Len(file)))
        /\ map # NoMap => map.seed = world.seed
        /\ (ret.call = "load" /\ ret.kind = "ok") => SameWorld(ret.val, world)

\* a load_map that ran between two writes of the save, on a file that held
\* the seed and the ore count of the world and not yet all of the encoding
C15_Witness ==
    /\ LoadDone /\ prov.saved = "running"
    /\ Len(wlog) < Len(SaveRun(world).log)
    /\ Len(file) >= 12
    /\ file # FullEncoding(world)
    /\ ret.kind = "error" /\ ret.err = "struct.error"
    /\ map # NoMap

\* the last call was a handle_events in which the apply button was clicked
ApplyClicked ==
    scene.call.op = "handle_events" /\ is_clicked(scene.apply_button, scene.call.event)

\* the last call was a handle_events in which the cancel button was clicked
CancelClicked ==
    scene.call.op = "handle_events" /\ is_clicked(scene.cancel_button, scene.call.event)

\* the events the last call posted
PostedByCall == SubSeq(scene.posted, scene.call.posted + 1, Len(scene.posted))

\* the last call changed a parameter entry or called core.update_parameter
Committed ==
    \/ scene.parameter.volume # scene.call.parameter.volume
    \/ scene.parameter.width # scene.call.parameter.width
    \/ scene.parameter.height # scene.call.parameter.height
    \/ Len(scene.updated) # scene.call.updated

\* C16: whatever calls of handle_events and update came before, a call
\* changes the parameter entries volume, width and height or calls
\* core.update_parameter only if it is a handle_events in which the apply
\* button is clicked; a handle_events in which the cancel button is clicked
\* does neither; both post one scene change to "title", no other to
\* "title", and set running to False.
C16_CommittedOnlyByApply ==
    scene.call.op # "none" =>
        /\ Committed => ApplyClicked
        /\ CancelClicked => ~Committed
        /\ (ApplyClicked \/ CancelClicked) =>
            /\ Cardinality({i \in 1..Len(PostedByCall) : PostedByCall[i] = "title"}) = 1
            /\ scene.running = FALSE

\* a click on the apply button that stored a volume the slider was moved to
\* and called core.update_parameter
C16_Witness ==
    /\ ApplyClicked
    /\ scene.parameter.volume # scene.call.parameter.volume
    /\ Len(scene.updated) = scene.call.updated + 1
    /\ PostedByCall = <<"title">>
    /\ scene.running = FALSE

====
